---- MODULE Spec2Model ----
(***************************************************************************)
(* Header-chain triage (Quarantine) and TTL reference cache (RefCache) of  *)
(* jormungandr/src/blockchain.                                             *)
(*                                                                         *)
(* Time is discrete (one unit = one tick of the tokio timer) and kept      *)
(* relative to the clock: a deadline is recorded as the time left until    *)
(* it (0 once it has elapsed), the time of a touch as the time gone by     *)
(* since it.  The DelayQueue of tokio-timer is modelled as a slab of       *)
(* handles, each holding the value it was inserted with and its deadline;  *)
(* polling it yields every handle whose deadline has elapsed, is NotReady  *)
(* while a handle with a future deadline remains, and yields None only     *)
(* when the queue is empty.                                                *)
(***************************************************************************)
EXTENDS Integers, FiniteSets, Sequences, TLC

\* ------------------------------------------------------------------ bounds
MaxHandles == 2

\* the `ttl` the cache is constructed with (RefCacheData::ttl)
TTL == 2

\* ----------------------------------------------------------------- headers
\* A header is identified by its hash; parent hash, chain length and block
\* date are the observations Quarantine::apply_header makes on it.
Genesis == [hash |-> 1, parent |-> 0, length |-> 0, date |-> 0]
HdrA == [hash |-> 2, parent |-> 1, length |-> 1, date |-> 1]
HdrB == [hash |-> 3, parent |-> 2, length |-> 2, date |-> 2]
HdrBadDate == [hash |-> 4, parent |-> 1, length |-> 1, date |-> 0]
\* a child of HdrA: its parent can be in the cache when it is rejected
HdrBadLen == [hash |-> 5, parent |-> 2, length |-> 3, date |-> 2]
HdrBadBoth == [hash |-> 6, parent |-> 1, length |-> 3, date |-> 0]

AllHeaders == {Genesis, HdrA, HdrB, HdrBadDate, HdrBadLen, HdrBadBoth}

HeaderHash == {h.hash : h \in AllHeaders}

HeaderOf(id) == CHOOSE h \in AllHeaders : h.hash = id

\* keys the RefCache operations are exercised with directly
CacheKeys == {HdrA.hash, HdrB.hash}

\* hashes get_header and get_block are asked for
ReadKeys == {HdrA.hash, HdrB.hash}

\* blocks a writer outside of the Quarantine commits to the store
PutKeys == {HdrA.hash, HdrB.hash}

\* ------------------------------------------------------ Quarantined values
NoVal == [tag |-> "None", id |-> 0]
QHeader(id) == [tag |-> "Header", id |-> id]
QBlock(id) == [tag |-> "Block", id |-> id]

Quarantined(id) == {QHeader(id), QBlock(id)}

\* ------------------------------------------------------------------ tasks
Tasks == {1}

Idle == [pc |-> "idle", id |-> 0, parent |-> 0]

\* ------------------------------------------------------------------- state
\* entries      RefCacheData::entries, hash -> (value, delay_queue::Key)
\* expirations  RefCacheData::expirations, slab slot -> (value, time left until the deadline)
\* lock         holder of RefCache::inner ("purge" while a purge future keeps its guard)
\* storage      hashes of the blocks the block store holds
\* task         the futures of Quarantine in flight, one per task
\* idle         history: time since the last insert / successful get of a key, counted
\*              up to TTL (-1: never touched, or removed since)
\* kept         history: keys whose deadline was in the future when the pending purge took the lock
\* held         history: time gone by since the pending purge took the lock, counted
\*              up to TTL
\* fresh        history: keys inserted (by apply_header, or directly), no purge or
\*              remove since
\* refMap       history: the reference map, hash -> value last inserted; remove deletes
\*              the key, a purge deletes the keys that went ttl without a touch
\* ev           history: the operation the last step performed and its outcome
VARIABLES entries, expirations, lock, storage, task, idle, kept, held, fresh, refMap, ev

vars == <<entries, expirations, lock, storage, task, idle, kept, held, fresh, refMap, ev>>

Handles == 1..MaxHandles

NoEntry == [val |-> NoVal, key |-> 0]
Vacant == [value |-> 0, when |-> 0]

Event(op, key, val, hit, parent, k) == [op |-> op, key |-> key, val |-> val, hit |-> hit, parent |-> parent, kept |-> k, pc |-> "idle", fail |-> FALSE]

\* the event of a step a task took from position pc
At(pc, e) == [e EXCEPT !.pc = pc]

\* the event of a step in which the call to storage failed
Failed(e) == [e EXCEPT !.fail = TRUE]

NoEv == Event("none", 0, NoVal, FALSE, 0, {})

\* entries.keys()
EntryKeys == {k \in HeaderHash : entries[k] # NoEntry}

\* handles of the delay queue that have neither fired nor been removed
LiveHandles == {h \in Handles : expirations[h] # Vacant}

HandlesOf(k) == {h \in LiveHandles : expirations[h].value = k}

LiveKeys == {expirations[h].value : h \in LiveHandles}

Expired == {h \in LiveHandles : expirations[h].when <= 0}

\* ------------------------------------------------------------ RefCacheData
\* DelayQueue::insert: a fresh slab slot holding the value, due in `timeout`
DelayQueue_insert(q, h, value, timeout) == [q EXCEPT ![h] = [value |-> value, when |-> timeout]]

\* DelayQueue::reset: the slot keeps its value and is due in `timeout` from now
DelayQueue_reset(q, h, timeout) == [q EXCEPT ![h].when = timeout]

\* DelayQueue::remove: the slot is vacated
DelayQueue_remove(q, h) == [q EXCEPT ![h] = Vacant]

\* the slab slot a DelayQueue::insert takes: which vacant slot it is makes no
\* difference to the cache, the lowest one stands for it
VacantSlot == CHOOSE h \in Handles \ LiveHandles : \A g \in Handles \ LiveHandles : h <= g

\* insert in the manner of entry().or_insert: a key already in the map keeps
\* the value it has
insert_keeps_existing(key, value) ==
    /\ Handles \ LiveHandles # {}
    /\ expirations' = DelayQueue_insert(expirations, VacantSlot, key, TTL)
    /\ entries' = [entries EXCEPT ![key] = [val |-> IF entries[key] # NoEntry THEN entries[key].val ELSE value,
                                            key |-> VacantSlot]]

insert(key, value) ==
    /\ Handles \ LiveHandles # {}
    /\ expirations' = DelayQueue_insert(expirations, VacantSlot, key, TTL)
    /\ entries' = [entries EXCEPT ![key] = [val |-> value, key |-> VacantSlot]]

get_value(key) == entries[key].val

\* get that returns the value and leaves the delay of the entry as it is
get_without_reset(key) == UNCHANGED <<entries, expirations>>

\* get that resets the deadline of every delay in the queue on a hit
get_resets_all(key) ==
    IF entries[key] # NoEntry
    THEN /\ expirations' = [h \in Handles |-> IF h \in LiveHandles
                                                THEN [expirations[h] EXCEPT !.when = TTL]
                                                ELSE expirations[h]]
         /\ UNCHANGED entries
    ELSE UNCHANGED <<entries, expirations>>

get(key) ==
    IF entries[key] # NoEntry
    THEN /\ expirations' = DelayQueue_reset(expirations, entries[key].key, TTL)
         /\ UNCHANGED entries
    ELSE UNCHANGED <<entries, expirations>>

\* remove that takes the delay off the queue and leaves the map alone
remove_keeps_entry(key) ==
    IF entries[key] # NoEntry
    THEN /\ expirations' = DelayQueue_remove(expirations, entries[key].key)
         /\ UNCHANGED entries
    ELSE UNCHANGED <<entries, expirations>>

remove(key) ==
    IF entries[key] # NoEntry
    THEN /\ entries' = [entries EXCEPT ![key] = NoEntry]
         /\ expirations' = DelayQueue_remove(expirations, entries[key].key)
    ELSE UNCHANGED <<entries, expirations>>

\* poll_purge that takes the elapsed handles off the queue and leaves the map alone
poll_purge_keeps_entries ==
    /\ expirations' = [h \in Handles |-> IF h \in Expired THEN Vacant ELSE expirations[h]]
    /\ UNCHANGED entries

\* one poll of poll_purge: every elapsed handle is taken off the queue and
\* its key deleted from the map; the outcome is Ready only when the queue
\* has run empty, otherwise NotReady (or the timer's error)
poll_purge ==
    /\ expirations' = [h \in Handles |-> IF h \in Expired THEN Vacant ELSE expirations[h]]
    /\ entries' = [k \in HeaderHash |->
                     IF \E h \in Expired : expirations[h].value = k THEN NoEntry ELSE entries[k]]

\* poll_purge that is Ready as soon as no elapsed handle is left in the queue
poll_purge_ready_none_elapsed == TRUE

poll_purge_ready == LiveHandles \ Expired = {}

\* ---------------------------------------------------------------- RefCache
\* keys whose stored deadline is still in the future
FutureKeys == {k \in EntryKeys : expirations[entries[k].key].when > 0}

RefCache_insert(key, value) ==
    /\ lock = "free"
    /\ insert(key, value)
    /\ idle' = [idle EXCEPT ![key] = 0]
    /\ refMap' = [refMap EXCEPT ![key] = value]
    /\ UNCHANGED <<lock, kept, held>>

\* get that reads and resets without taking the lock
RefCache_get_unlocked(key) ==
    /\ get(key)
    /\ idle' = IF entries[key] # NoEntry THEN [idle EXCEPT ![key] = 0] ELSE idle
    /\ UNCHANGED <<lock, kept, held, refMap>>

RefCache_get(key) ==
    /\ lock = "free"
    /\ get(key)
    /\ idle' = IF entries[key] # NoEntry THEN [idle EXCEPT ![key] = 0] ELSE idle
    /\ UNCHANGED <<lock, kept, held, refMap>>

RefCache_remove(key) ==
    /\ lock = "free"
    /\ remove(key)
    /\ idle' = [idle EXCEPT ![key] = -1]
    /\ refMap' = [refMap EXCEPT ![key] = NoVal]
    /\ UNCHANGED <<lock, kept, held>>

\* the purge future takes the lock and polls poll_purge with the guard held
RefCache_purge ==
    /\ lock = "free"
    /\ poll_purge
    /\ IF poll_purge_ready
       THEN /\ lock' = "free"
            /\ kept' = {}
            /\ held' = 0
            /\ ev' = Event("purge", 0, NoVal, TRUE, 0, FutureKeys)
       ELSE /\ lock' = "purge"
            /\ kept' = FutureKeys
            /\ held' = 0
            /\ ev' = NoEv
    /\ refMap' = [k \in HeaderHash |-> IF idle[k] >= TTL THEN NoVal ELSE refMap[k]]
    /\ UNCHANGED idle

\* the pending purge future is polled again once the timer has woken it
RefCache_purge_poll ==
    /\ lock = "purge"
    /\ Expired # {}
    /\ poll_purge
    /\ IF poll_purge_ready
       THEN /\ lock' = "free"
            /\ kept' = {}
            /\ held' = 0
            /\ ev' = Event("purge", 0, NoVal, TRUE, 0, kept)
       ELSE /\ lock' = "purge"
            /\ kept' = kept
            /\ held' = held
            /\ ev' = NoEv
    /\ refMap' = [k \in HeaderHash |-> IF idle[k] >= TTL THEN NoVal ELSE refMap[k]]
    /\ UNCHANGED idle

\* the timer fails while the purge waits for the next deadline: the future
\* resolves to timer::Error and its guard is dropped
RefCache_purge_error ==
    /\ lock = "purge"
    /\ lock' = "free"
    /\ kept' = {}
    /\ held' = 0
    /\ ev' = Event("purge_error", 0, NoVal, FALSE, 0, {})
    /\ UNCHANGED <<entries, expirations, idle, refMap>>

\* ------------------------------------------------- actions of the RefCache
Init ==
    /\ entries = [k \in HeaderHash |-> NoEntry]
    /\ expirations = [h \in Handles |-> Vacant]
    /\ lock = "free"
    /\ storage = {Genesis.hash}
    /\ task = [t \in Tasks |-> Idle]
    /\ idle = [k \in HeaderHash |-> -1]
    /\ kept = {}
    /\ held = 0
    /\ fresh = {}
    /\ refMap = [k \in HeaderHash |-> NoVal]
    /\ ev = NoEv

\* one unit of time passes: every pending deadline comes one unit closer
Tick ==
    /\ expirations' = [h \in Handles |->
                          IF h \in LiveHandles /\ expirations[h].when > 0
                          THEN [expirations[h] EXCEPT !.when = @ - 1]
                          ELSE expirations[h]]
    /\ idle' = [k \in HeaderHash |-> IF idle[k] >= 0 /\ idle[k] < TTL THEN idle[k] + 1 ELSE idle[k]]
    /\ held' = IF lock = "purge" /\ held < TTL THEN held + 1 ELSE held
    /\ ev' = NoEv
    /\ UNCHANGED <<entries, lock, storage, task, kept, fresh, refMap>>

Insert ==
    \E k \in CacheKeys : \E v \in Quarantined(k) :
        /\ RefCache_insert(k, v)
        /\ ev' = Event("insert", k, v, entries[k] # NoEntry, 0, {})
        /\ fresh' = fresh \cup {k}
        /\ UNCHANGED <<storage, task>>

Get ==
    \E k \in CacheKeys :
        /\ RefCache_get(k)
        /\ ev' = Event("get", k, get_value(k), entries[k] # NoEntry, 0, {})
        /\ UNCHANGED <<storage, task, fresh>>

Remove ==
    \E k \in CacheKeys :
        /\ RefCache_remove(k)
        /\ ev' = Event("remove", k, NoVal, entries[k] # NoEntry, 0, {})
        /\ fresh' = fresh \ {k}
        /\ UNCHANGED <<storage, task>>

Purge == RefCache_purge /\ fresh' = {} /\ UNCHANGED <<storage, task>>

PurgePoll == RefCache_purge_poll /\ fresh' = {} /\ UNCHANGED <<storage, task>>

PurgeError == RefCache_purge_error /\ UNCHANGED <<storage, task, fresh>>

\* ----------------------------------------------------------------- storage
\* Storage::block_exists and Storage::get answer from the blocks the store
\* holds; either may fail instead
block_exists(id) == id \in storage

storage_get(id) == IF id \in storage THEN QBlock(id) ELSE NoVal

\* a writer outside of the Quarantine commits a block whose parent the store holds
StoragePut ==
    \E b \in PutKeys :
        /\ b \notin storage
        /\ HeaderOf(b).parent \in storage
        /\ storage' = storage \cup {b}
        /\ ev' = NoEv
        /\ UNCHANGED <<entries, expirations, lock, task, idle, kept, held, fresh, refMap>>

\* -------------------------------------------------------------- Quarantine
Result(tag, id) == [tag |-> tag, id |-> id]

\* a failure of storage answered as if the block were not there
storage_error_as_none == Result("None", 0)

\* map_err(|e| e.into()): a failure of storage becomes the error of the call
storage_error == Result("StorageError", 0)

Done(t) == task' = [task EXCEPT ![t] = Idle]

Goto(t, pc, id, parent) == task' = [task EXCEPT ![t] = [pc |-> pc, id |-> id, parent |-> parent]]

\* get_header that treats a cached Header the way get_block does
get_header_hit_header_none(entry) ==
    CASE entry.tag = "Header" -> Result("None", 0)
      [] entry.tag = "Block" -> Result("Some", HeaderOf(entry.id).hash)

\* what get_header answers for the entry the cache returned
get_header_hit(entry) ==
    CASE entry.tag = "Header" -> Result("Some", entry.id)
      [] entry.tag = "Block" -> Result("Some", HeaderOf(entry.id).hash)

\* get_block that fails on a cached Header
get_block_hit_header_error(entry) ==
    CASE entry.tag = "Header" -> Result("StorageError", 0)
      [] entry.tag = "Block" -> Result("Some", entry.id)

\* what get_block answers for the entry the cache returned
get_block_hit(entry) ==
    CASE entry.tag = "Header" -> Result("None", 0)
      [] entry.tag = "Block" -> Result("Some", entry.id)

\* get_header, first future: ref_cache.get(header_hash)
get_header(t, header_hash) ==
    /\ task[t].pc = "idle"
    /\ RefCache_get(header_hash)
    /\ IF get_value(header_hash) = NoVal
       THEN /\ Goto(t, "get_header_storage", header_hash, 0)
            /\ ev' = NoEv
       ELSE /\ Done(t)
            /\ ev' = Event("get_header", header_hash, get_header_hit(get_value(header_hash)), TRUE, 0, {})
    /\ UNCHANGED <<storage, fresh>>

\* get_header, cache miss: storage.get(header_hash) mapped to the block's header
get_header_storage(t) ==
    /\ task[t].pc = "get_header_storage"
    /\ Done(t)
    /\ \/ ev' = Failed(Event("get_header", task[t].id, storage_error, FALSE, 0, {}))
       \/ ev' = Event("get_header", task[t].id,
                      IF storage_get(task[t].id) = NoVal THEN Result("None", 0)
                      ELSE Result("Some", HeaderOf(storage_get(task[t].id).id).hash), FALSE, 0, {})
    /\ UNCHANGED <<entries, expirations, lock, storage, idle, kept, held, fresh, refMap>>

\* get_block, first future: ref_cache.get(header_hash)
get_block(t, header_hash) ==
    /\ task[t].pc = "idle"
    /\ RefCache_get(header_hash)
    /\ IF get_value(header_hash) = NoVal
       THEN /\ Goto(t, "get_block_storage", header_hash, 0)
            /\ ev' = NoEv
       ELSE /\ Done(t)
            /\ ev' = Event("get_block", header_hash, get_block_hit(get_value(header_hash)), TRUE, 0, {})
    /\ UNCHANGED <<storage, fresh>>

\* get_block, cache miss: storage.get(header_hash)
get_block_storage(t) ==
    /\ task[t].pc = "get_block_storage"
    /\ Done(t)
    /\ \/ ev' = Failed(Event("get_block", task[t].id, storage_error, FALSE, 0, {}))
       \/ ev' = Event("get_block", task[t].id,
                      IF storage_get(task[t].id) = NoVal THEN Result("None", 0)
                      ELSE Result("Some", storage_get(task[t].id).id), FALSE, 0, {})
    /\ UNCHANGED <<entries, expirations, lock, storage, idle, kept, held, fresh, refMap>>

\* verification that leaves out the chain length check
verify_without_length(header, parent) ==
    IF header.date <= parent.date THEN "BadDate"
    ELSE "Ok"

\* verification that checks the chain length before the date
verify_length_first(header, parent) ==
    IF header.length # parent.length + 1 THEN "BadLength"
    ELSE IF header.date <= parent.date THEN "BadDate"
    ELSE "Ok"

\* the checks apply_header makes on a header against its resolved parent
verify(header, parent) ==
    IF header.date <= parent.date THEN "BadDate"
    ELSE IF header.length # parent.length + 1 THEN "BadLength"
    ELSE "Ok"

\* an `if exists` branch that has the future of get_header(parent) polled
\* before it answers
apply_header_present_polls_parent(t, header) ==
    /\ Done(t)
    /\ ev' = Event("apply_header", header.hash, Result("AlreadyPresent", 0), TRUE, 0, {})
    /\ IF header.parent \in HeaderHash
       THEN RefCache_get(header.parent)
       ELSE UNCHANGED <<entries, expirations, lock, idle, kept, held, refMap>>

\* apply_header, `if exists` branch: AlreadyPresent; the future of
\* get_header(parent) is dropped without having been polled
apply_header_present(t, header) ==
    /\ Done(t)
    /\ ev' = Event("apply_header", header.hash, Result("AlreadyPresent", 0), TRUE, 0, {})
    /\ UNCHANGED <<entries, expirations, lock, idle, kept, held, refMap>>

\* apply_header, first future: storage.block_exists(block_id)
apply_header(t, header) ==
    /\ task[t].pc = "idle"
    /\ \/ /\ Done(t)
          /\ ev' = Failed(Event("apply_header", header.hash, storage_error, FALSE, 0, {}))
          /\ UNCHANGED <<entries, expirations, lock, idle, kept, held, refMap>>
       \/ /\ block_exists(header.hash)
          /\ apply_header_present(t, header)
       \/ /\ ~block_exists(header.hash)
          /\ Goto(t, "apply_header_parent", header.hash, 0)
          /\ ev' = NoEv
          /\ UNCHANGED <<entries, expirations, lock, idle, kept, held, refMap>>
    /\ UNCHANGED <<storage, fresh>>

\* apply_header once the parent is resolved: verification, then Ok(header)
\* leads to the insert future, an Err ends the call
apply_header_verify(t, header, parent, hit) ==
    IF verify(header, parent) = "Ok"
    THEN /\ Goto(t, "apply_header_insert", header.hash, parent.hash)
         /\ ev' = NoEv
    ELSE /\ Done(t)
         /\ ev' = At(task[t].pc, Event("apply_header", header.hash, Result(verify(header, parent), 0), FALSE, parent.hash, {}))

\* apply_header, get_header_parent polled: ref_cache.get(parent_block_id)
apply_header_parent(t) ==
    /\ task[t].pc = "apply_header_parent"
    /\ RefCache_get(HeaderOf(task[t].id).parent)
    /\ IF get_value(HeaderOf(task[t].id).parent) = NoVal
       THEN /\ Goto(t, "apply_header_parent_storage", task[t].id, 0)
            /\ ev' = NoEv
       ELSE apply_header_verify(t, HeaderOf(task[t].id),
                                HeaderOf(get_header_hit(get_value(HeaderOf(task[t].id).parent)).id), TRUE)
    /\ UNCHANGED <<storage, fresh>>

\* a parent lookup that goes on to verification when storage does not hold
\* the parent either
apply_header_parent_storage_accepts_missing(t) ==
    /\ task[t].pc = "apply_header_parent_storage"
    /\ \/ /\ Done(t)
          /\ ev' = Failed(At(task[t].pc, Event("apply_header", task[t].id, storage_error, FALSE, 0, {})))
       \/ apply_header_verify(t, HeaderOf(task[t].id), HeaderOf(HeaderOf(task[t].id).parent), FALSE)
    /\ UNCHANGED <<entries, expirations, lock, storage, idle, kept, held, fresh, refMap>>

\* apply_header, parent not cached: storage.get(parent_block_id)
apply_header_parent_storage(t) ==
    /\ task[t].pc = "apply_header_parent_storage"
    /\ \/ /\ Done(t)
          /\ ev' = Failed(At(task[t].pc, Event("apply_header", task[t].id, storage_error, FALSE, 0, {})))
       \/ IF storage_get(HeaderOf(task[t].id).parent) = NoVal
          THEN /\ Done(t)
               /\ ev' = At(task[t].pc, Event("apply_header", task[t].id, Result("MissingParent", task[t].id), FALSE, 0, {}))
          ELSE apply_header_verify(t, HeaderOf(task[t].id),
                                   HeaderOf(storage_get(HeaderOf(task[t].id).parent).id), FALSE)
    /\ UNCHANGED <<entries, expirations, lock, storage, idle, kept, held, fresh, refMap>>

\* apply_header, last future: ref_cache.insert(header.hash(), Header(header))
apply_header_insert(t) ==
    /\ task[t].pc = "apply_header_insert"
    /\ RefCache_insert(HeaderOf(task[t].id).hash, QHeader(task[t].id))
    /\ Done(t)
    /\ ev' = At(task[t].pc, Event("apply_header", task[t].id, Result("Quarantined", task[t].id), FALSE, task[t].parent, {}))
    /\ fresh' = fresh \cup {HeaderOf(task[t].id).hash}
    /\ UNCHANGED storage

GetHeader == \E t \in Tasks : \E h \in ReadKeys : get_header(t, h)

GetHeaderStorage == \E t \in Tasks : get_header_storage(t)

GetBlock == \E t \in Tasks : \E h \in ReadKeys : get_block(t, h)

GetBlockStorage == \E t \in Tasks : get_block_storage(t)

ApplyHeader == \E t \in Tasks : \E h \in AllHeaders : apply_header(t, h)

ApplyHeaderParent == \E t \in Tasks : apply_header_parent(t)

ApplyHeaderParentStorage == \E t \in Tasks : apply_header_parent_storage(t)

ApplyHeaderInsert == \E t \in Tasks : apply_header_insert(t)

Next ==
    \/ ApplyHeader \/ ApplyHeaderParent \/ ApplyHeaderParentStorage \/ ApplyHeaderInsert
    \/ GetHeader \/ GetHeaderStorage \/ GetBlock \/ GetBlockStorage
    \/ StoragePut \/ Purge \/ PurgePoll \/ PurgeError \/ Tick

Spec == Init /\ [][Next]_vars

CacheNext == Insert \/ Get \/ Remove \/ Purge \/ PurgePoll \/ PurgeError \/ Tick

CacheSpec == Init /\ [][CacheNext]_vars

\* get_header and get_block over a cache that holds entries of both kinds:
\* the Quarantine itself inserts Quarantined::Header only, the entries of
\* either kind are put in through RefCache::insert
ReadNext ==
    \/ Insert \/ GetHeader \/ GetHeaderStorage \/ GetBlock \/ GetBlockStorage
    \/ StoragePut \/ Purge \/ PurgePoll \/ PurgeError \/ Tick

ReadSpec == Init /\ [][ReadNext]_vars

\* the Quarantine under a purge driver that keeps running and a timer that
\* does not fail: time passes, a purge is started whenever the lock stays
\* free, and a pending purge is polled again once a deadline has elapsed
LiveNext ==
    \/ ApplyHeader \/ ApplyHeaderParent \/ ApplyHeaderParentStorage \/ ApplyHeaderInsert
    \/ GetHeader \/ GetHeaderStorage
    \/ StoragePut \/ Purge \/ PurgePoll \/ Tick

LiveSpec ==
    /\ Init
    /\ [][LiveNext]_vars
    /\ WF_vars(Tick)
    /\ WF_vars(Purge)
    /\ WF_vars(PurgePoll)

TypeOK ==
    /\ \A k \in HeaderHash : idle[k] \in -1..TTL
    /\ lock \in {"free", "purge"}
    /\ \A k \in HeaderHash : entries[k] = NoEntry \/ entries[k].key \in Handles
    /\ \A h \in LiveHandles : expirations[h].value \in HeaderHash
    /\ \A k \in HeaderHash : refMap[k] \in {NoVal} \cup Quarantined(k)
    /\ fresh \subseteq HeaderHash
    /\ held \in 0..TTL
    /\ lock = "free" => held = 0

\* ------------------------------------------------------------------ claims
\* a key was touched (inserted or read with success) and not removed since
Touched(k) == idle[k] >= 0

\* C1: in every reachable state the keys of `entries` are exactly the keys
\* that have a live handle in `expirations`.
EntriesMatchExpirations == EntryKeys = LiveKeys

\* C2: an insert on a key already in the cache leaves the key with the new
\* value and with exactly one live handle, due at the time of the insert
\* plus ttl.
InsertReplacesExpiration ==
    (ev.op = "insert" /\ ev.hit) =>
        /\ entries[ev.key].val = ev.val
        /\ Cardinality(HandlesOf(ev.key)) = 1
        /\ \A h \in HandlesOf(ev.key) : expirations[h].when = TTL

\* C3: a key whose last insert or successful get is less than ttl ago, and
\* that was not removed since, is in the cache.
NoPrematureEviction ==
    \A k \in HeaderHash : (Touched(k) /\ idle[k] < TTL) => k \in EntryKeys

\* C4: when a purge completes, no key last touched ttl or more ago is left
\* in the cache; and get_header answers Some only for a key it found in the
\* cache (touching it) or in storage, so that it answers None for a key the
\* purge evicted and storage does not hold.
EvictionComplete ==
    /\ (ev.op = "purge" /\ ev.hit) =>
          \A k \in HeaderHash : (Touched(k) /\ idle[k] >= TTL) => k \notin EntryKeys
    /\ (ev.op = "get_header" /\ ev.val.tag = "Some") =>
          \/ ev.hit /\ ev.key \in EntryKeys /\ idle[ev.key] = 0
          \/ ~ev.hit /\ ev.key \in storage
    /\ (ev.op = "get_header" /\ ~ev.hit /\ ev.key \notin storage /\ ev.val.tag # "StorageError") =>
          ev.val.tag = "None"

\* a purge has completed at a time when a touched key had gone ttl without a touch
EvictionCompleteWitness ==
    /\ ev.op = "purge"
    /\ ev.hit
    /\ \E k \in HeaderHash : Touched(k) /\ idle[k] >= TTL /\ k \notin storage

\* C5: a purge that started while an entry's deadline was in the future
\* completes with that entry still in the cache.
PurgeKeepsUnexpired == (ev.op = "purge" /\ ev.hit) => ev.kept \subseteq EntryKeys

\* C6: a step in which apply_header finds the header's block in storage
\* answers AlreadyPresent and leaves the map and the expiration queue as
\* they were.
AdmissionBarrier ==
    [][(ev'.op = "apply_header" /\ ev'.pc = "idle" /\ ev'.key \in storage /\ ev'.val.tag # "StorageError")
         => (ev'.val.tag = "AlreadyPresent" /\ entries' = entries /\ expirations' = expirations)]_vars

\* apply_header answered AlreadyPresent while the parent sat in the cache
\* with a deadline a reset would have moved
AdmissionBarrierWitness ==
    /\ ev.op = "apply_header"
    /\ ev.val.tag = "AlreadyPresent"
    /\ HeaderOf(ev.key).parent \in EntryKeys
    /\ expirations[entries[HeaderOf(ev.key).parent].key].when < TTL

\* the structural conditions between a header and its parent
Linked(h, p) == h.length = p.length + 1 /\ p.date < h.date

\* C7: every Quarantined(id) answer carries the hash of the header and the
\* call resolved the header's parent, which the header extends by one in
\* chain length and follows strictly in block date; every header
\* apply_header put in the cache satisfies both conditions.
LinkageSound ==
    /\ (ev.op = "apply_header" /\ ev.val.tag = "Quarantined") =>
          /\ ev.val.id = HeaderOf(ev.key).hash
          /\ ev.parent = HeaderOf(ev.key).parent
          /\ ev.parent \in HeaderHash
          /\ Linked(HeaderOf(ev.key), HeaderOf(ev.parent))
    /\ \A k \in EntryKeys :
          /\ HeaderOf(k).parent \in HeaderHash
          /\ Linked(HeaderOf(k), HeaderOf(HeaderOf(k).parent))

\* apply_header answered Quarantined
LinkageSoundWitness == ev.op = "apply_header" /\ ev.val.tag = "Quarantined"

\* C8: get_block answers Some exactly when storage holds the block or the
\* cache holds Block(_) under the hash.
StorageAuthority ==
    (ev.op = "get_block" /\ ev.val.tag # "StorageError") =>
        (ev.val.tag = "Some" <=> (ev.key \in storage \/ entries[ev.key].val.tag = "Block"))

\* the outcome the decision table gives a header whose parent was resolved
TableOutcome(h, p) ==
    IF h.date <= p.date THEN "BadDate"
    ELSE IF h.length # p.length + 1 THEN "BadLength"
    ELSE "Quarantined"

\* the outcome of an apply_header that did not fail on storage, by the step
\* that ended it
TriageOutcome ==
    LET h == HeaderOf(ev.key)
        tag == ev.val.tag
    IN CASE ev.pc = "idle" -> tag = "AlreadyPresent" /\ ev.key \in storage
         [] ev.pc = "apply_header_parent" ->
                /\ h.parent \in EntryKeys
                /\ tag = TableOutcome(h, HeaderOf(h.parent))
         [] ev.pc = "apply_header_parent_storage" ->
                IF h.parent \notin storage
                THEN tag = "MissingParent" /\ h.parent \notin EntryKeys
                ELSE tag = TableOutcome(h, HeaderOf(h.parent))
         [] ev.pc = "apply_header_insert" ->
                /\ ev.parent = h.parent
                /\ tag = TableOutcome(h, HeaderOf(h.parent))
                /\ tag = "Quarantined"
                /\ ev.val.id = h.hash

\* C9: apply_header on a header storage does not hold ends in the one
\* outcome the table gives, missing parent first, then date, then chain
\* length, then Quarantined; a header storage holds at the existence check
\* goes no further than AlreadyPresent.
TriageTable ==
    [][/\ (ev'.op = "apply_header" /\ ev'.val.tag # "StorageError") => TriageOutcome'
       /\ \A t \in Tasks :
            (task[t].pc = "idle" /\ task'[t].pc = "apply_header_parent") => task'[t].id \notin storage]_vars

\* apply_header rejected on the date a header whose chain length is wrong too
TriageTableWitness ==
    /\ ev.op = "apply_header"
    /\ ev.val.tag = "BadDate"
    /\ HeaderOf(ev.key).length # HeaderOf(ev.parent).length + 1

\* C10: a key apply_header quarantined, with no purge and no remove since,
\* holds Header(h) in the cache, and get_header answers Some(h) for it from
\* the cache.
QuarantinedVisible ==
    /\ \A k \in fresh : entries[k].val = QHeader(k)
    /\ (ev.op = "apply_header" /\ ev.val.tag = "Quarantined") => entries[ev.key].val = QHeader(ev.key)
    /\ (ev.op = "get_header" /\ ev.key \in fresh) => (ev.val = Result("Some", ev.key) /\ ev.hit)

\* get_header answered for a quarantined header that storage does not hold
QuarantinedVisibleWitness ==
    /\ ev.op = "get_header"
    /\ ev.key \in fresh
    /\ ev.key \notin storage

\* C14: the lock of the cache is held only by an operation that is running:
\* a purge that holds the lock has an elapsed deadline to act on, it never
\* keeps the lock while it waits for a deadline to pass.
LockHeldOnlyWhileRunning == lock = "purge" => Expired # {}

\* C15: a get of a key inserted with no remove of the key and no purge since
\* finds the key and returns the value of the latest insert.
LatestInsertVisible ==
    (ev.op = "get" /\ ev.key \in fresh) => (ev.hit /\ ev.val = refMap[ev.key])

\* a get answered for a key that was inserted twice with no purge or remove since
LatestInsertVisibleWitness ==
    /\ ev.op = "get"
    /\ ev.key \in fresh
    /\ Cardinality(HandlesOf(ev.key)) = 2

\* the keys of the reference map
RefKeys == {k \in HeaderHash : refMap[k] # NoVal}

\* C16: after any sequence of insert, get, remove and purge the keys of the
\* cache are the keys of the reference map.
KeySetMatchesReference == EntryKeys = RefKeys

\* C18: a remove of a key in the cache leaves neither the key in the map nor
\* any expiration of the key in the queue; a remove of a key not in the
\* cache changes neither the map nor the queue.
RemoveClearsExpirations ==
    [][ev'.op = "remove" =>
         IF ev'.hit
         THEN /\ entries'[ev'.key] = NoEntry
              /\ \A h \in Handles : expirations'[h] = Vacant \/ expirations'[h].value # ev'.key
         ELSE entries' = entries /\ expirations' = expirations]_vars

\* C20: the handle stored next to the value of every key of the map is a
\* live handle of the queue, scheduled for that key.
StoredHandleLive == \A k \in EntryKeys : entries[k].key \in HandlesOf(k)

\* a get found a key that has a second handle in the queue besides the stored one
StoredHandleLiveWitness ==
    /\ ev.op = "get"
    /\ ev.hit
    /\ HandlesOf(ev.key) \ {entries[ev.key].key} # {}

\* the errors of apply_header
ApplyErrors == {"MissingParent", "BadDate", "BadLength", "StorageError"}

\* a step of apply_header that leads to the lookup of the parent in storage
\* or ends the call
ParentLookupStep(t) ==
    \/ task[t].pc = "idle" /\ task'[t].pc = "apply_header_parent"
    \/ task[t].pc = "apply_header_parent" /\ task'[t].pc = "apply_header_parent_storage"

\* C12 as stated: no step of an apply_header that ends in an error changes
\* the map or the expiration queue, the deadline of a cached parent included.
NoEffectOnError ==
    [][/\ (ev'.op = "apply_header" /\ ev'.val.tag \in ApplyErrors) =>
             (entries' = entries /\ expirations' = expirations)
       /\ \A t \in Tasks : ParentLookupStep(t) => (entries' = entries /\ expirations' = expirations)]_vars

\* C12: an apply_header that ends in an error adds no entry, removes none
\* and changes no value; the one deadline it can change is the deadline of
\* the parent it found in the cache, which the lookup resets to ttl from now.
ErrorOnlyResetsParent ==
    [][/\ (ev'.op = "apply_header" /\ ev'.val.tag \in ApplyErrors) =>
             /\ entries' = entries
             /\ \A h \in Handles :
                   \/ expirations'[h] = expirations[h]
                   \/ /\ ev'.pc = "apply_header_parent"
                      /\ HeaderOf(ev'.key).parent \in EntryKeys
                      /\ h = entries[HeaderOf(ev'.key).parent].key
                      /\ expirations'[h] = [expirations[h] EXCEPT !.when = TTL]
       /\ \A t \in Tasks : ParentLookupStep(t) => (entries' = entries /\ expirations' = expirations)]_vars

\* apply_header rejected a header against the parent it found in the cache
ErrorOnlyResetsParentWitness ==
    /\ ev.op = "apply_header"
    /\ ev.val.tag \in {"BadDate", "BadLength"}
    /\ ev.pc = "apply_header_parent"
    /\ Cardinality(LiveHandles) = 2

\* C13: a step in which storage failed ends the call with the storage
\* error, whichever of get_header, get_block and apply_header made it, and
\* changes neither the map nor the expiration queue: apply_header answers
\* neither AlreadyPresent nor Quarantined and inserts nothing.
StorageErrorPropagates ==
    [][ev'.fail =>
         /\ ev'.val.tag = "StorageError"
         /\ \A t \in Tasks : task'[t] = Idle
         /\ entries' = entries
         /\ expirations' = expirations]_vars

\* the lookup of the parent in storage failed while the cache held an entry
StorageErrorPropagatesWitness ==
    /\ ev.fail
    /\ ev.op = "apply_header"
    /\ ev.pc = "apply_header_parent_storage"
    /\ EntryKeys # {}

\* a step that completed a read in the cache: the entry was there, it stays
\* as it is, its delay is reset to ttl, no other delay moves and the call is over
CacheHit(k) ==
    /\ entries[k] # NoEntry
    /\ entries' = entries
    /\ expirations' = [expirations EXCEPT ![entries[k].key].when = TTL]
    /\ \A t \in Tasks : task'[t] = Idle

\* a step in which a read missed the cache and goes on to storage
CacheMiss(pc) ==
    \A t \in Tasks :
        (task[t].pc = "idle" /\ task'[t].pc = pc) =>
            /\ entries[task'[t].id] = NoEntry
            /\ entries' = entries
            /\ expirations' = expirations

\* a step that completed a read in storage, after a miss; the cache stays as it is
StorageRead(pc, k) ==
    /\ \E t \in Tasks : task[t].pc = pc /\ task[t].id = k
    /\ entries' = entries
    /\ expirations' = expirations

\* C11: get_header answers a cached Header(x) with x and a cached Block(b)
\* with the header of b, in the step that found the entry, and resets the
\* entry's deadline; only a miss goes on to storage, and the step that
\* answers from storage leaves the cache as it was.
HeaderReadCacheFirst ==
    [][/\ (ev'.op = "get_header" /\ ev'.hit) =>
             /\ CacheHit(ev'.key)
             /\ entries[ev'.key].val.tag = "Header" => ev'.val = Result("Some", entries[ev'.key].val.id)
             /\ entries[ev'.key].val.tag = "Block" =>
                    ev'.val = Result("Some", HeaderOf(entries[ev'.key].val.id).hash)
       /\ CacheMiss("get_header_storage")
       /\ (ev'.op = "get_header" /\ ~ev'.hit) =>
             /\ StorageRead("get_header_storage", ev'.key)
             /\ ~ev'.fail =>
                    ev'.val = IF ev'.key \in storage THEN Result("Some", ev'.key) ELSE Result("None", 0)]_vars

\* get_header answered from a cached Block whose deadline had been running
HeaderReadCacheFirstWitness ==
    /\ ev.op = "get_header"
    /\ ev.hit
    /\ entries[ev.key].val.tag = "Block"
    /\ ev.key \in storage

PurgeCompletesEmpty ==
    (ev.op = "purge" /\ ev.hit) => (LiveHandles = {} /\ EntryKeys = {})

\* a purge has completed that took the lock while deadlines were in the future
PurgeCompletesEmptyWitness ==
    /\ ev.op = "purge"
    /\ ev.hit
    /\ ev.kept # {}

\* C22: while a purge holds the lock no deadline is further away than what
\* is left of ttl since the purge took the lock, so that every deadline has
\* elapsed ttl after it; and every purge that holds the lock eventually
\* releases it.
PurgeTerminates ==
    /\ [](lock = "purge" => \A h \in LiveHandles : expirations[h].when <= TTL - held)
    /\ (lock = "purge") ~> (lock = "free")

\* a purge has held the lock for some time and waits for a deadline that
\* falls exactly ttl after it took the lock
PurgeTerminatesWitness ==
    /\ lock = "purge"
    /\ held > 0
    /\ \E h \in LiveHandles : expirations[h].when = TTL - held

\* C23: an apply_header that answers Quarantined leaves Header(h) under the
\* hash of h, also when h was quarantined before; and an entry that was
\* inserted twice (two delays of its key are pending) leaves the cache
\* only when ttl has passed since it was last quarantined or read.
RepeatableApply ==
    [][/\ (ev'.op = "apply_header" /\ ev'.val.tag = "Quarantined") =>
             (ev'.val.id = ev'.key /\ entries'[ev'.key].val = QHeader(ev'.key))
       /\ \A k \in CacheKeys :
             (entries[k] # NoEntry /\ Cardinality(HandlesOf(k)) = 2 /\ entries'[k] = NoEntry) =>
                 idle[k] >= TTL]_vars

\* the hashes under which the cache holds a Header
HeaderEntries == {k \in EntryKeys : entries[k].val.tag = "Header"}

\* C24 as stated: the parent of every Header in the cache is in the cache
\* or in storage.
ParentClosed ==
    \A k \in HeaderEntries : HeaderOf(k).parent \in EntryKeys \cup storage

\* C24: apply_header goes on to insert a header only in a step that found
\* the header's parent in the cache or in storage; the parent of every
\* Header in the cache is in the cache or in storage, or it was in the
\* cache and has been evicted since.
ParentResolvedOnInsert ==
    [][/\ \A t \in Tasks :
             (task[t].pc # "apply_header_insert" /\ task'[t].pc = "apply_header_insert") =>
                 /\ task'[t].parent = HeaderOf(task'[t].id).parent
                 /\ task'[t].parent \in EntryKeys \cup storage
       /\ \A k \in HeaderEntries' :
             \/ HeaderOf(k).parent \in EntryKeys' \cup storage'
             \/ idle'[HeaderOf(k).parent] >= 0]_vars

\* the cache holds a Header whose parent was evicted and is not in storage,
\* and the lock is free
ParentResolvedOnInsertWitness ==
    /\ lock = "free"
    /\ \E k \in HeaderEntries : HeaderOf(k).parent \notin EntryKeys \cup storage

====
